---- MODULE Spec2Model ----
(***************************************************************************)
(* Model of display-temp.py: the SensorTag polling loop that records       *)
(* readings to data.csv, draws them on the GFX-HAT LCD and picks a         *)
(* backlight colour from the mean of the three temperature channels.       *)
(*                                                                         *)
(* Units.  A raw sensor value is an integer number of thousandths.  A      *)
(* rounded reading (round(value, 2)) is an integer number of hundredths.   *)
(* mean_temp is kept exactly, in units of 1/300 degree: it is the sum of   *)
(* the three rounded temperatures, so "mean_temp > 28.0" of the source is  *)
(* "mean_temp > 300 * 28" here.                                            *)
(***************************************************************************)
EXTENDS Integers, Sequences, FiniteSets, TLC

\* Number of get_readings calls explored (the source loops forever).
MaxCycles == 3

VARIABLES
    pc,            \* position of the single thread of control
    i,             \* index of the next capability in enable_sensors / disable_sensors
    enabled,       \* capabilities currently enabled on the SensorTag
    gr_readings,   \* get_readings: the local dict `readings`
    gr_log,        \* device calls made by the current get_readings call, in order
    readings,      \* main: the dict `readings`
    image,         \* main: the PIL image buffer
    mean_temp,     \* main: mean_temp, in 1/300 degree
    backlight_buf, \* gfxhat backlight buffer (set_pixel / set_all)
    backlight,     \* backlight as last committed by backlight.show()
    lcd,           \* LCD content as last committed by lcd.show()
    hook,          \* TRUE once atexit.register(cleanup) has run
    cleanup_calls, \* number of invocations of cleanup()
    exit_cause,    \* "none", "interrupt" (KeyboardInterrupt) or "fault" (other exception)
    reconnect_failed, \* TRUE once tag.connect has raised in reconnect
    polls,         \* number of get_readings calls
    acquired,      \* number of get_readings calls that returned a non-empty dict
    rows,          \* number of rows in data.csv
    redraws,       \* number of lcd.show() calls made by the loop (line 205)
    cyc            \* what the current cycle (since the last get_readings call) has done

vars == <<pc, i, enabled, gr_readings, gr_log, readings, image, mean_temp,
          backlight_buf, backlight, lcd, hook, cleanup_calls, exit_cause,
          reconnect_failed, polls, acquired, rows, redraws, cyc>>

----------------------------------------------------------------------------
\* Data

\* The eight capabilities, in the order enable_sensors and disable_sensors use.
Capabilities == <<"IRtemperature", "accelerometer", "humidity", "magnetometer",
                  "barometer", "gyroscope", "keypress", "lightmeter">>

Keys == {"ir_temp", "ir", "humidity_temp", "humidity", "baro_temp", "pressure", "light"}

\* Raw values the sensors may deliver (thousandths).  The temperatures are
\* chosen so that the mean meets every threshold exactly and on either side.
IRTempRaw == {35502, 33998, 31601, 31004, 25003, 22001, 21698, 19002, 18699,
              16001, 15703}
HumTempRaw == {24903, 24996}
BaroTempRaw == {25001, 25104}
IRRaw == {21500}
HumidityRaw == {40120}
PressureRaw == {1012346}
LightRaw == {150678}

\* round(value, 2): thousandths to hundredths (no raw value above is a tie).
Round2(v) == (v + 5) \div 10

EmptyDict == << >>

\* d[k] = v of a Python dict
Put(d, k, v) == [x \in (DOMAIN d) \cup {k} |-> IF x = k THEN v ELSE d[x]]

HotRed == <<155, 0, 0>>
WarmRed == <<155, 75, 75>>
CoolBlueLight == <<100, 100, 155>>
CoolBlueMid == <<50, 50, 155>>
CoolBlueDark == <<0, 0, 155>>
NeutralGray == <<155, 155, 155>>
Off == <<0, 0, 0>>

NoCycle == [rows |-> 0, redraws |-> 0, connects |-> 0, sleeps |-> 0]

----------------------------------------------------------------------------
\* Positions

InitPcs == {"connect", "init_display", "register"}
GetReadingsPcs == {"enable", "settle", "read_ir", "read_humidity", "read_barometer",
                   "read_light", "disable", "round"}
LoopPcs == {"loop", "check", "reconnect", "record", "draw", "colour", "push", "idle"}
TryPcs == GetReadingsPcs \cup LoopPcs

Init ==
    /\ pc = "connect"
    /\ i = 1
    /\ enabled = {}
    /\ gr_readings = EmptyDict
    /\ gr_log = << >>
    /\ readings = EmptyDict
    /\ image = "none"
    /\ mean_temp = 0
    /\ backlight_buf = Off
    /\ backlight = Off
    /\ lcd = "blank"
    /\ hook = FALSE
    /\ cleanup_calls = 0
    /\ exit_cause = "none"
    /\ reconnect_failed = FALSE
    /\ polls = 0
    /\ acquired = 0
    /\ rows = 0
    /\ redraws = 0
    /\ cyc = NoCycle

----------------------------------------------------------------------------
\* cleanup(), lines 103-107

cleanup ==
    /\ backlight_buf' = Off
    /\ backlight' = Off
    /\ lcd' = "blank"
    /\ cleanup_calls' = cleanup_calls + 1

\* An exception other than KeyboardInterrupt leaves main: the interpreter
\* goes on to run the registered exit handlers.
Uncaught ==
    /\ exit_cause' = "fault"
    /\ pc' = "atexit"

----------------------------------------------------------------------------
\* main, lines 118-140: INIT

Connect ==
    /\ pc = "connect"
    /\ pc' = "init_display"
    /\ UNCHANGED <<i, enabled, gr_readings, gr_log, readings, image, mean_temp,
                   backlight_buf, backlight, lcd, hook, cleanup_calls, exit_cause,
                   reconnect_failed, polls, acquired, rows, redraws, cyc>>

\* SensorTag(SENSORTAG_ADDRESS) raises: the device cannot be reached.
ConnectFault ==
    /\ pc = "connect"
    /\ Uncaught
    /\ UNCHANGED <<i, enabled, gr_readings, gr_log, readings, image, mean_temp,
                   backlight_buf, backlight, lcd, hook, cleanup_calls,
                   reconnect_failed, polls, acquired, rows, redraws, cyc>>

\* Lines 126-136: the image, the six LEDs and pixels, set_all(155, 155, 155), show.
InitDisplay ==
    /\ pc = "init_display"
    /\ image' = "blank"
    /\ backlight_buf' = NeutralGray
    /\ backlight' = NeutralGray
    /\ pc' = "register"
    /\ UNCHANGED <<i, enabled, gr_readings, gr_log, readings, mean_temp,
                   lcd, hook, cleanup_calls, exit_cause,
                   reconnect_failed, polls, acquired, rows, redraws, cyc>>

\* A display call of lines 126-136 raises before anything is committed.
InitDisplayFault ==
    /\ pc = "init_display"
    /\ Uncaught
    /\ UNCHANGED <<i, enabled, gr_readings, gr_log, readings, image, mean_temp,
                   backlight_buf, backlight, lcd, hook, cleanup_calls,
                   reconnect_failed, polls, acquired, rows, redraws, cyc>>

\* Lines 138-141: atexit.register(cleanup), then the try block is entered.
Register ==
    /\ pc = "register"
    /\ hook' = TRUE
    /\ pc' = "loop"
    /\ UNCHANGED <<i, enabled, gr_readings, gr_log, readings, image, mean_temp,
                   backlight_buf, backlight, lcd, cleanup_calls, exit_cause,
                   reconnect_failed, polls, acquired, rows, redraws, cyc>>

----------------------------------------------------------------------------
\* get_readings, lines 59-83, with enable_sensors and disable_sensors

\* Lines 143-145: clear the image and call get_readings.
Poll ==
    /\ pc = "loop"
    /\ polls < MaxCycles
    /\ image' = "blank"
    /\ polls' = polls + 1
    /\ cyc' = NoCycle
    /\ gr_log' = << >>
    /\ gr_readings' = EmptyDict
    /\ i' = 1
    /\ pc' = "enable"
    /\ UNCHANGED <<enabled, readings, mean_temp, backlight_buf, backlight, lcd, hook,
                   cleanup_calls, exit_cause, reconnect_failed, acquired, rows,
                   redraws>>

\* One call of lines 31-38; after the eighth, time.sleep(1.0) is next.
Enable ==
    /\ pc = "enable"
    /\ enabled' = enabled \cup {Capabilities[i]}
    /\ gr_log' = Append(gr_log, <<"enable", Capabilities[i]>>)
    /\ IF i = Len(Capabilities)
          THEN pc' = "settle" /\ i' = 1
          ELSE pc' = "enable" /\ i' = i + 1
    /\ UNCHANGED <<gr_readings, readings, image, mean_temp, backlight_buf, backlight,
                   lcd, hook, cleanup_calls, exit_cause, reconnect_failed, polls,
                   acquired, rows, redraws, cyc>>

\* Line 43 and line 63: the settling delay, then readings = {}.
Settle ==
    /\ pc = "settle"
    /\ gr_readings' = EmptyDict
    /\ pc' = "read_ir"
    /\ UNCHANGED <<i, enabled, gr_log, readings, image, mean_temp, backlight_buf,
                   backlight, lcd, hook, cleanup_calls, exit_cause, reconnect_failed,
                   polls, acquired, rows, redraws, cyc>>

\* Line 65
ReadIR ==
    /\ pc = "read_ir"
    /\ \E t \in IRTempRaw, v \in IRRaw :
          gr_readings' = Put(Put(gr_readings, "ir_temp", t), "ir", v)
    /\ gr_log' = Append(gr_log, <<"read", "IRtemperature">>)
    /\ pc' = "read_humidity"
    /\ UNCHANGED <<i, enabled, readings, image, mean_temp, backlight_buf,
                   backlight, lcd, hook, cleanup_calls, exit_cause, reconnect_failed,
                   polls, acquired, rows, redraws, cyc>>

\* Line 67
ReadHumidity ==
    /\ pc = "read_humidity"
    /\ \E t \in HumTempRaw, v \in HumidityRaw :
          gr_readings' = Put(Put(gr_readings, "humidity_temp", t), "humidity", v)
    /\ gr_log' = Append(gr_log, <<"read", "humidity">>)
    /\ pc' = "read_barometer"
    /\ UNCHANGED <<i, enabled, readings, image, mean_temp, backlight_buf,
                   backlight, lcd, hook, cleanup_calls, exit_cause, reconnect_failed,
                   polls, acquired, rows, redraws, cyc>>

\* Line 69
ReadBarometer ==
    /\ pc = "read_barometer"
    /\ \E t \in BaroTempRaw, v \in PressureRaw :
          gr_readings' = Put(Put(gr_readings, "baro_temp", t), "pressure", v)
    /\ gr_log' = Append(gr_log, <<"read", "barometer">>)
    /\ pc' = "read_light"
    /\ UNCHANGED <<i, enabled, readings, image, mean_temp, backlight_buf,
                   backlight, lcd, hook, cleanup_calls, exit_cause, reconnect_failed,
                   polls, acquired, rows, redraws, cyc>>

\* Line 71
ReadLight ==
    /\ pc = "read_light"
    /\ \E v \in LightRaw : gr_readings' = Put(gr_readings, "light", v)
    /\ gr_log' = Append(gr_log, <<"read", "lightmeter">>)
    /\ pc' = "disable"
    /\ UNCHANGED <<i, enabled, readings, image, mean_temp, backlight_buf,
                   backlight, lcd, hook, cleanup_calls, exit_cause, reconnect_failed,
                   polls, acquired, rows, redraws, cyc>>

\* One call of lines 48-55; after the eighth, the rounding is next.
Disable ==
    /\ pc = "disable"
    /\ enabled' = enabled \ {Capabilities[i]}
    /\ gr_log' = Append(gr_log, <<"disable", Capabilities[i]>>)
    /\ IF i = Len(Capabilities)
          THEN pc' = "round" /\ i' = 1
          ELSE pc' = "disable" /\ i' = i + 1
    /\ UNCHANGED <<gr_readings, readings, image, mean_temp, backlight_buf, backlight,
                   lcd, hook, cleanup_calls, exit_cause, reconnect_failed, polls,
                   acquired, rows, redraws, cyc>>

\* What main does with the value get_readings returns (line 145): the
\* local dict of get_readings is gone.
Return(result) ==
    /\ readings' = result
    /\ acquired' = IF result # EmptyDict THEN acquired + 1 ELSE acquired
    /\ gr_readings' = EmptyDict
    /\ pc' = "check"

\* Lines 77-78: round every value and return the dict.
RoundAndReturn ==
    /\ pc = "round"
    /\ Return([k \in DOMAIN gr_readings |-> Round2(gr_readings[k])])
    /\ UNCHANGED <<i, enabled, gr_log, image, mean_temp, backlight_buf, backlight,
                   lcd, hook, cleanup_calls, exit_cause, reconnect_failed, polls,
                   rows, redraws, cyc>>

\* The positions of get_readings that talk to the device.
DevicePcs == {"enable", "read_ir", "read_humidity", "read_barometer", "read_light",
              "disable"}

\* BTLEFault with the dict built so far returned instead of {}.
BTLEFault_Partial ==
    /\ pc \in DevicePcs
    /\ Return(gr_readings)
    /\ UNCHANGED <<i, enabled, gr_log, image, mean_temp, backlight_buf, backlight,
                   lcd, hook, cleanup_calls, exit_cause, reconnect_failed, polls,
                   rows, redraws, cyc>>

\* Lines 80-83: a device call raises BTLEException; print and return {}.
BTLEFault ==
    /\ pc \in DevicePcs
    /\ Return(EmptyDict)
    /\ UNCHANGED <<i, enabled, gr_log, image, mean_temp, backlight_buf, backlight,
                   lcd, hook, cleanup_calls, exit_cause, reconnect_failed, polls,
                   rows, redraws, cyc>>

----------------------------------------------------------------------------
\* main, lines 141-210: the loop

\* Check with the empty result going straight back to the loop.
Check_NoReconnect ==
    /\ pc = "check"
    /\ pc' = IF readings = EmptyDict THEN "loop" ELSE "record"
    /\ UNCHANGED <<i, enabled, gr_readings, gr_log, readings, image, mean_temp,
                   backlight_buf, backlight, lcd, hook, cleanup_calls, exit_cause,
                   reconnect_failed, polls, acquired, rows, redraws, cyc>>

\* Line 146: `if not readings`
Check ==
    /\ pc = "check"
    /\ pc' = IF readings = EmptyDict THEN "reconnect" ELSE "record"
    /\ UNCHANGED <<i, enabled, gr_readings, gr_log, readings, image, mean_temp,
                   backlight_buf, backlight, lcd, hook, cleanup_calls, exit_cause,
                   reconnect_failed, polls, acquired, rows, redraws, cyc>>

\* Reconnect followed by the idle of line 207 instead of `continue`.
Reconnect_ThenIdle ==
    /\ pc = "reconnect"
    /\ cyc' = [cyc EXCEPT !.connects = @ + 1]
    /\ pc' = "idle"
    /\ UNCHANGED <<i, enabled, gr_readings, gr_log, readings, image, mean_temp,
                   backlight_buf, backlight, lcd, hook, cleanup_calls, exit_cause,
                   reconnect_failed, polls, acquired, rows, redraws>>

\* Lines 147-149 and 86-88: tag.connect succeeds, `continue`.
Reconnect ==
    /\ pc = "reconnect"
    /\ cyc' = [cyc EXCEPT !.connects = @ + 1]
    /\ pc' = "loop"
    /\ UNCHANGED <<i, enabled, gr_readings, gr_log, readings, image, mean_temp,
                   backlight_buf, backlight, lcd, hook, cleanup_calls, exit_cause,
                   reconnect_failed, polls, acquired, rows, redraws>>

\* ReconnectFault with the exception printed and swallowed (no `raise e`).
ReconnectFault_Swallowed ==
    /\ pc = "reconnect"
    /\ cyc' = [cyc EXCEPT !.connects = @ + 1]
    /\ reconnect_failed' = TRUE
    /\ pc' = "loop"
    /\ UNCHANGED <<i, enabled, gr_readings, gr_log, readings, image, mean_temp,
                   backlight_buf, backlight, lcd, hook, cleanup_calls, exit_cause,
                   polls, acquired, rows, redraws>>

\* Lines 88-92: tag.connect raises an Exception, which reconnect raises again;
\* main has no handler for it.
ReconnectFault ==
    /\ pc = "reconnect"
    /\ cyc' = [cyc EXCEPT !.connects = @ + 1]
    /\ reconnect_failed' = TRUE
    /\ Uncaught
    /\ UNCHANGED <<i, enabled, gr_readings, gr_log, readings, image, mean_temp,
                   backlight_buf, backlight, lcd, hook, cleanup_calls,
                   polls, acquired, rows, redraws>>

\* Record with data.csv opened in mode 'w': the file holds the new row only.
Record_Truncating ==
    /\ pc = "record"
    /\ rows' = 1
    /\ cyc' = [cyc EXCEPT !.rows = @ + 1]
    /\ pc' = "draw"
    /\ UNCHANGED <<i, enabled, gr_readings, gr_log, readings, image, mean_temp,
                   backlight_buf, backlight, lcd, hook, cleanup_calls, exit_cause,
                   reconnect_failed, polls, acquired, redraws>>

\* Lines 152-164: print the readings and append one row to data.csv.
Record ==
    /\ pc = "record"
    /\ rows' = rows + 1
    /\ cyc' = [cyc EXCEPT !.rows = @ + 1]
    /\ pc' = "draw"
    /\ UNCHANGED <<i, enabled, gr_readings, gr_log, readings, image, mean_temp,
                   backlight_buf, backlight, lcd, hook, cleanup_calls, exit_cause,
                   reconnect_failed, polls, acquired, redraws>>

\* Line 162: open(r'data.csv', 'a') raises (OSError); no row is written.
WriteFault ==
    /\ pc = "record"
    /\ Uncaught
    /\ UNCHANGED <<i, enabled, gr_readings, gr_log, readings, image, mean_temp,
                   backlight_buf, backlight, lcd, hook, cleanup_calls,
                   reconnect_failed, polls, acquired, rows, redraws, cyc>>

\* Lines 170-181: the six text lines are drawn on the image.
Draw ==
    /\ pc = "draw"
    /\ image' = "text"
    /\ pc' = "colour"
    /\ UNCHANGED <<i, enabled, gr_readings, gr_log, readings, mean_temp,
                   backlight_buf, backlight, lcd, hook, cleanup_calls, exit_cause,
                   reconnect_failed, polls, acquired, rows, redraws, cyc>>

\* Line 181: get_ip() raises (wlan0 has no IPv4 address).
RenderFault ==
    /\ pc = "draw"
    /\ Uncaught
    /\ UNCHANGED <<i, enabled, gr_readings, gr_log, readings, image, mean_temp,
                   backlight_buf, backlight, lcd, hook, cleanup_calls,
                   reconnect_failed, polls, acquired, rows, redraws, cyc>>

\* Lines 183-185, in 1/300 degree
MeanTemp(r) == r["ir_temp"] + r["humidity_temp"] + r["baro_temp"]

\* BacklightColour with the first comparison written >=.
BacklightColour_Inclusive(m) ==
    IF m >= 300 * 28 THEN HotRed
    ELSE IF m > 300 * 27 THEN WarmRed
    ELSE IF m < 300 * 24 THEN CoolBlueLight
    ELSE IF m < 300 * 23 THEN CoolBlueMid
    ELSE IF m < 300 * 22 THEN CoolBlueDark
    ELSE NeutralGray

\* Lines 186-197: the if / elif chain
BacklightColour(m) ==
    IF m > 300 * 28 THEN HotRed
    ELSE IF m > 300 * 27 THEN WarmRed
    ELSE IF m < 300 * 24 THEN CoolBlueLight
    ELSE IF m < 300 * 23 THEN CoolBlueMid
    ELSE IF m < 300 * 22 THEN CoolBlueDark
    ELSE NeutralGray

\* Lines 183-198: mean_temp, backlight.set_all, backlight.show
Colour ==
    /\ pc = "colour"
    /\ mean_temp' = MeanTemp(readings)
    /\ backlight_buf' = BacklightColour(MeanTemp(readings))
    /\ backlight' = BacklightColour(MeanTemp(readings))
    /\ pc' = "push"
    /\ UNCHANGED <<i, enabled, gr_readings, gr_log, readings, image,
                   lcd, hook, cleanup_calls, exit_cause,
                   reconnect_failed, polls, acquired, rows, redraws, cyc>>

\* Lines 200-205: copy the image to the LCD buffer, lcd.show()
Push ==
    /\ pc = "push"
    /\ lcd' = image
    /\ redraws' = redraws + 1
    /\ cyc' = [cyc EXCEPT !.redraws = @ + 1]
    /\ pc' = "idle"
    /\ UNCHANGED <<i, enabled, gr_readings, gr_log, readings, image, mean_temp,
                   backlight_buf, backlight, hook, cleanup_calls, exit_cause,
                   reconnect_failed, polls, acquired, rows>>

\* Line 207: time.sleep(FREQUENCY_SECONDS), then the next iteration
Idle ==
    /\ pc = "idle"
    /\ cyc' = [cyc EXCEPT !.sleeps = @ + 1]
    /\ pc' = "loop"
    /\ UNCHANGED <<i, enabled, gr_readings, gr_log, readings, image, mean_temp,
                   backlight_buf, backlight, lcd, hook, cleanup_calls, exit_cause,
                   reconnect_failed, polls, acquired, rows, redraws>>

----------------------------------------------------------------------------
\* Termination

\* KeyboardInterrupt inside the try block (lines 141-207): caught at line 209.
Interrupt ==
    /\ pc \in TryPcs
    /\ exit_cause' = "interrupt"
    /\ pc' = "except"
    /\ UNCHANGED <<i, enabled, gr_readings, gr_log, readings, image, mean_temp,
                   backlight_buf, backlight, lcd, hook, cleanup_calls,
                   reconnect_failed, polls, acquired, rows, redraws, cyc>>

\* KeyboardInterrupt before the try block (lines 119-140): not caught.
InterruptInit ==
    /\ pc \in InitPcs
    /\ exit_cause' = "interrupt"
    /\ pc' = "atexit"
    /\ UNCHANGED <<i, enabled, gr_readings, gr_log, readings, image, mean_temp,
                   backlight_buf, backlight, lcd, hook, cleanup_calls,
                   reconnect_failed, polls, acquired, rows, redraws, cyc>>

\* Lines 209-210: the handler calls cleanup(); main returns.
HandleInterrupt ==
    /\ pc = "except"
    /\ cleanup
    /\ pc' = "atexit"
    /\ UNCHANGED <<i, enabled, gr_readings, gr_log, readings, image, mean_temp,
                   hook, exit_cause, reconnect_failed, polls, acquired, rows,
                   redraws, cyc>>

\* Interpreter exit: the handler registered at line 138, if any, runs.
AtExit ==
    /\ pc = "atexit"
    /\ IF hook
          THEN cleanup
          ELSE UNCHANGED <<backlight_buf, backlight, lcd, cleanup_calls>>
    /\ pc' = "terminated"
    /\ UNCHANGED <<i, enabled, gr_readings, gr_log, readings, image, mean_temp,
                   hook, exit_cause, reconnect_failed, polls, acquired, rows,
                   redraws, cyc>>

Next ==
    \/ Connect \/ ConnectFault \/ InitDisplay \/ InitDisplayFault \/ Register
    \/ Poll \/ Enable \/ Settle \/ ReadIR \/ ReadHumidity \/ ReadBarometer
    \/ ReadLight \/ Disable \/ RoundAndReturn \/ BTLEFault
    \/ Check \/ Reconnect \/ ReconnectFault \/ Record \/ WriteFault
    \/ Draw \/ RenderFault \/ Colour \/ Push \/ Idle
    \/ Interrupt \/ InterruptInit \/ HandleInterrupt \/ AtExit

Spec == Init /\ [][Next]_vars

TypeOK ==
    /\ pc \in InitPcs \cup TryPcs \cup {"except", "atexit", "terminated"}
    /\ i \in 1..Len(Capabilities)
    /\ DOMAIN readings \subseteq Keys
    /\ polls \in 0..MaxCycles

----------------------------------------------------------------------------
\* Properties

\* The state in which the loop is about to call get_readings again (or would,
\* the loop being unbounded in the source): the cycle counted in cyc is over.
CycleOver == pc = "loop" /\ polls > 0

\* C1 as stated: when a cycle is over or the process has ended, the rows
\* written, the redraws committed by the loop and the non-empty acquisitions
\* are equal in number.
C1_RowsRedrawsAcquired ==
    (CycleOver \/ pc = "terminated") => (rows = acquired /\ redraws = acquired)

\* C1 amended: a cycle that reaches the next get_readings call has appended
\* exactly one row and committed exactly one redraw if its acquisition was
\* non-empty, and none of either if it was empty, so that at every
\* get_readings call rows = redraws = non-empty acquisitions; a fault or an
\* interrupt may end the process inside a cycle, and then
\* redraws <= rows <= non-empty acquisitions <= redraws + 1.
C1_CompletedCycles ==
    /\ pc = "loop" => (rows = acquired /\ redraws = acquired)
    /\ (CycleOver /\ readings # EmptyDict) => (cyc.rows = 1 /\ cyc.redraws = 1)
    /\ readings = EmptyDict => (cyc.rows = 0 /\ cyc.redraws = 0)
    /\ redraws <= rows
    /\ rows <= acquired
    /\ acquired <= redraws + 1

\* One empty and one non-empty cycle are over.
C1_Witness ==
    /\ CycleOver
    /\ polls = 2
    /\ acquired = 1
    /\ rows = 1
    /\ redraws = 1

\* C2: the colour committed for the example means: 28.5 hot-red, 27.2
\* warm-red, 23.9 cool-blue-light, 22.9 cool-blue-mid, 21.9 cool-blue-dark,
\* 25.0 neutral-gray.
C2_ExampleColours ==
    pc = "push" =>
        /\ mean_temp = 3 * 2850 => backlight = HotRed
        /\ mean_temp = 3 * 2720 => backlight = WarmRed
        /\ mean_temp = 3 * 2390 => backlight = CoolBlueLight
        /\ mean_temp = 3 * 2290 => backlight = CoolBlueMid
        /\ mean_temp = 3 * 2190 => backlight = CoolBlueDark
        /\ mean_temp = 3 * 2500 => backlight = NeutralGray

\* The ordered table of the specification: a rule matches a mean above
\* (gt) or below its bound, both strictly.
ThresholdTable ==
    << [gt |-> TRUE, bound |-> 28, colour |-> HotRed],
       [gt |-> TRUE, bound |-> 27, colour |-> WarmRed],
       [gt |-> FALSE, bound |-> 24, colour |-> CoolBlueLight],
       [gt |-> FALSE, bound |-> 23, colour |-> CoolBlueMid],
       [gt |-> FALSE, bound |-> 22, colour |-> CoolBlueDark] >>

Matches(rule, m) == IF rule.gt THEN m > 300 * rule.bound ELSE m < 300 * rule.bound

FirstMatch(m) ==
    LET hits == {j \in DOMAIN ThresholdTable : Matches(ThresholdTable[j], m)}
    IN  IF hits = {} THEN NeutralGray
        ELSE ThresholdTable[CHOOSE j \in hits : \A k \in hits : j <= k].colour

\* C3: the colour set and committed for a mean is the outcome of the first
\* matching rule of the ordered table, the comparisons being strict: a mean
\* of exactly 28.0 gives warm-red, of exactly 27.0 or 24.0 neutral-gray.
C3_FirstMatchWins ==
    pc = "push" =>
        /\ backlight_buf = FirstMatch(mean_temp)
        /\ backlight = FirstMatch(mean_temp)
        /\ mean_temp = 300 * 28 => backlight = WarmRed
        /\ mean_temp = 300 * 27 => backlight = NeutralGray
        /\ mean_temp = 300 * 24 => backlight = NeutralGray

\* A mean of exactly 28.0 has been coloured.
C3_Witness == pc = "push" /\ mean_temp = 300 * 28 /\ backlight = WarmRed

\* C4: after an empty result no row is written, and by the next
\* get_readings call tag.connect has been called exactly once; it is never
\* called in a cycle whose result was non-empty.
C4_ReconnectOnEmpty ==
    /\ (CycleOver /\ readings = EmptyDict) => (cyc.connects = 1 /\ cyc.rows = 0)
    /\ readings = EmptyDict => cyc.rows = 0
    /\ cyc.connects <= 1
    /\ cyc.connects > 0 => readings = EmptyDict

\* An empty cycle is over, its reconnect made.
C4_Witness ==
    /\ CycleOver
    /\ readings = EmptyDict
    /\ cyc.connects = 1
    /\ acquired = 1

\* C5: once the hook is registered, cleanup has been invoked exactly once
\* when the process has ended.
C5_CleanupOnce == (pc = "terminated" /\ hook) => cleanup_calls = 1

\* C6: when the process has ended on a fault (any exit that is not a manual
\* interrupt), cleanup has run, the backlight is off and the LCD is cleared.
C6_CleanupOnFault ==
    (pc = "terminated" /\ exit_cause = "fault") =>
        /\ cleanup_calls >= 1
        /\ backlight = Off
        /\ lcd = "blank"

\* C7: a failed reconnect leaves main and ends the program: from then on no
\* get_readings call, no reconnect attempt and no row; a reconnect that
\* succeeds goes back to the head of the loop.
C7_ReconnectFatal ==
    [][ /\ reconnect_failed =>
              /\ polls' = polls
              /\ rows' = rows
              /\ cyc'.connects = cyc.connects
              /\ pc' \in {"atexit", "terminated"}
        /\ (pc = "reconnect" /\ cyc'.connects = cyc.connects + 1) =>
              IF reconnect_failed'
                  THEN pc' = "atexit" /\ exit_cause' = "fault"
                  ELSE pc' = "loop" /\ exit_cause' = exit_cause ]_vars

\* A reconnect has failed and the process has ended.
C7_Witness == reconnect_failed /\ pc = "terminated" /\ polls < MaxCycles

\* C8: main never holds a reading set with only some of the seven keys; a
\* get_readings call that ends on a BTLEException returns {} to main (the
\* exception goes no further), one that ends without returns all seven keys.
C8_AllOrNothing ==
    /\ [](DOMAIN readings \in {{}, Keys})
    /\ [][ (pc \in GetReadingsPcs /\ pc' \notin GetReadingsPcs \cup {"except"}) =>
              /\ pc' = "check"
              /\ exit_cause' = exit_cause
              /\ IF pc = "round"
                    THEN DOMAIN readings' = Keys
                    ELSE readings' = EmptyDict ]_vars

\* get_readings has returned {} after at least one read had succeeded.
C8_Witness ==
    /\ pc = "check"
    /\ readings = EmptyDict
    /\ \E j \in DOMAIN gr_log : gr_log[j][1] = "read"

ReadCapabilities == {"IRtemperature", "humidity", "barometer", "lightmeter"}

Count(op, cap) == Cardinality({j \in DOMAIN gr_log : gr_log[j] = <<op, cap>>})

C10_IdleOnlyOnSuccess ==
    /\ cyc.sleeps <= 1
    /\ cyc.sleeps = 1 => (cyc.redraws = 1 /\ readings # EmptyDict)
    /\ CycleOver => cyc.sleeps = (IF readings = EmptyDict THEN 0 ELSE 1)
    /\ (CycleOver /\ readings = EmptyDict) =>
          (cyc.connects = 1 /\ cyc.rows = 0 /\ cyc.redraws = 0)
    /\ acquired = 0 => (rows = 0 /\ redraws = 0 /\ cyc.sleeps = 0)

\* Two acquisitions in a row were empty, each followed by a reconnect.
C10_Witness ==
    /\ CycleOver
    /\ polls = 2
    /\ acquired = 0
    /\ cyc.connects = 1

====
